---- MODULE Spec2Model ----
(***************************************************************************)
(* Dictionary Classifier (streamlit_app.py): one Streamlit session.        *)
(* Every step of the model is one run of the script, top to bottom: the    *)
(* session-state initialisation, then the handler of the page the sidebar  *)
(* radio selects.  Strings are sequences of one-character strings, so that *)
(* lower(), strip(), split(","), join and the substring test "in" are      *)
(* computed character by character as Python computes them.                *)
(***************************************************************************)
EXTENDS Integers, Sequences, FiniteSets, TLC

VARIABLES
  keys,          \* the keys present in st.session_state
  df,            \* st.session_state["df"]: None or a DataFrame
  dictionaries,  \* st.session_state["dictionaries"]: ordered name -> keyword list
  page,          \* the sidebar radio's value in the last script run
  clicked,       \* whether the page's button was pressed in the last run
  new_name,      \* the "Tactic name" text_input when "Add tactic" was pressed
  shown,         \* the messages and widgets the last script run rendered
  ranOnDf,       \* history: "Run classifier" has run on the DataFrame now held
  runs           \* number of script runs so far in the session

vars == <<keys, df, dictionaries, page, clicked, new_name, shown, ranOnDf, runs>>

----------------------------------------------------------------------------
(* Bounds of the model                                                     *)

\* script runs after the session's first run
MaxRuns == 4

----------------------------------------------------------------------------
(* Python str operations                                                   *)

Upper == <<"A","B","C","D","E","F","G","H","I","J","K","L","M",
           "N","O","P","Q","R","S","T","U","V","W","X","Y","Z">>
Lower == <<"a","b","c","d","e","f","g","h","i","j","k","l","m",
           "n","o","p","q","r","s","t","u","v","w","x","y","z">>

\* the characters of the model in code-point order (str comparison in sorted())
CodePoints == <<"\t", "\n", " ", "'", ",">> \o Upper \o <<"_">> \o Lower

Whitespace == {" ", "\t", "\n"}

Ord(c) == CHOOSE i \in 1..Len(CodePoints) : CodePoints[i] = c

\* str.lower() on one character
LowerChar(c) ==
  IF \E i \in 1..Len(Upper) : Upper[i] = c
  THEN Lower[CHOOSE i \in 1..Len(Upper) : Upper[i] = c]
  ELSE c

\* str.lower()
StrLower(s) == [i \in 1..Len(s) |-> LowerChar(s[i])]

\* a test that finds sub only at the start of s (str.startswith)
ContainsAtStart(sub, s) ==
  Len(sub) <= Len(s) /\ SubSeq(s, 1, Len(sub)) = sub

\* sub in s
Contains(sub, s) ==
  \E i \in 0..(Len(s) - Len(sub)) : SubSeq(s, i + 1, i + Len(sub)) = sub

\* str.strip()
RECURSIVE LStrip(_)
LStrip(s) ==
  IF s # <<>> /\ Head(s) \in Whitespace THEN LStrip(Tail(s)) ELSE s

RECURSIVE RStrip(_)
RStrip(s) ==
  IF s # <<>> /\ s[Len(s)] \in Whitespace
  THEN RStrip(SubSeq(s, 1, Len(s) - 1))
  ELSE s

Strip(s) == RStrip(LStrip(s))

\* str.split(","): the pieces between commas, "" included
SplitComma(s) ==
  LET isComma(i) == s[i] = ","
      commas == SelectSeq([i \in 1..Len(s) |-> i], isComma)
      n      == Len(commas)
  IN  [k \in 1..(n + 1) |->
         SubSeq(s, IF k = 1 THEN 1 ELSE commas[k - 1] + 1,
                   IF k = n + 1 THEN Len(s) ELSE commas[k] - 1)]

\* sep.join(parts)
RECURSIVE Join(_, _)
Join(sep, parts) ==
  IF parts = <<>> THEN <<>>
  ELSE IF Len(parts) = 1 THEN parts[1]
  ELSE parts[1] \o sep \o Join(sep, Tail(parts))

CommaSpace == <<",", " ">>
Comma == <<",">>

\* s < t for str (code-point lexicographic order)
RECURSIVE StrLess(_, _)
StrLess(s, t) ==
  IF t = <<>> THEN FALSE
  ELSE IF s = <<>> THEN TRUE
  ELSE IF s[1] = t[1] THEN StrLess(Tail(s), Tail(t))
  ELSE Ord(s[1]) < Ord(t[1])

\* sorted(list of str)
RECURSIVE Sorted(_)
Sorted(l) ==
  IF l = <<>> THEN <<>>
  ELSE LET i == CHOOSE j \in 1..Len(l) :
                  \A k \in 1..Len(l) :
                     \/ StrLess(l[j], l[k])
                     \/ (l[j] = l[k] /\ j <= k)
       IN  <<l[i]>> \o Sorted(SubSeq(l, 1, i - 1) \o SubSeq(l, i + 1, Len(l)))

\* str(text) for a cell of the Statement column: a str is itself, a missing
\* value read by pd.read_csv is float NaN and renders as "nan"
NanText == <<"n","a","n">>

----------------------------------------------------------------------------
(* Session state initialisation                                            *)

UrgencySeed ==
  << <<"l","i","m","i","t","e","d">>,
     <<"l","i","m","i","t","e","d"," ","t","i","m","e">>,
     <<"l","i","m","i","t","e","d"," ","r","u","n">>,
     <<"l","i","m","i","t","e","d"," ","e","d","i","t","i","o","n">>,
     <<"o","r","d","e","r"," ","n","o","w">>,
     <<"l","a","s","t"," ","c","h","a","n","c","e">>,
     <<"h","u","r","r","y">>,
     <<"w","h","i","l","e"," ","s","u","p","p","l","i","e","s"," ","l","a","s","t">>,
     <<"b","e","f","o","r","e"," ","t","h","e","y","'","r","e"," ","g","o","n","e">>,
     <<"s","e","l","l","i","n","g"," ","o","u","t">>,
     <<"s","e","l","l","i","n","g"," ","f","a","s","t">>,
     <<"a","c","t"," ","n","o","w">>,
     <<"d","o","n","'","t"," ","w","a","i","t">>,
     <<"t","o","d","a","y"," ","o","n","l","y">>,
     <<"e","x","p","i","r","e","s"," ","s","o","o","n">>,
     <<"f","i","n","a","l"," ","h","o","u","r","s">>,
     <<"a","l","m","o","s","t"," ","g","o","n","e">> >>

ExclusiveSeed ==
  << <<"e","x","c","l","u","s","i","v","e">>,
     <<"e","x","c","l","u","s","i","v","e","l","y">>,
     <<"e","x","c","l","u","s","i","v","e"," ","o","f","f","e","r">>,
     <<"e","x","c","l","u","s","i","v","e"," ","d","e","a","l">>,
     <<"m","e","m","b","e","r","s"," ","o","n","l","y">>,
     <<"v","i","p">>,
     <<"s","p","e","c","i","a","l"," ","a","c","c","e","s","s">>,
     <<"i","n","v","i","t","a","t","i","o","n"," ","o","n","l","y">>,
     <<"p","r","e","m","i","u","m">>,
     <<"p","r","i","v","i","l","e","g","e","d">>,
     <<"l","i","m","i","t","e","d"," ","a","c","c","e","s","s">>,
     <<"s","e","l","e","c","t"," ","c","u","s","t","o","m","e","r","s">>,
     <<"i","n","s","i","d","e","r">>,
     <<"p","r","i","v","a","t","e"," ","s","a","l","e">>,
     <<"e","a","r","l","y"," ","a","c","c","e","s","s">> >>

urgency_marketing ==
  <<"u","r","g","e","n","c","y","_","m","a","r","k","e","t","i","n","g">>
exclusive_marketing ==
  <<"e","x","c","l","u","s","i","v","e","_","m","a","r","k","e","t","i","n","g">>

DefaultDictionaries ==
  << [name |-> urgency_marketing,   keywords |-> Sorted(UrgencySeed)],
     [name |-> exclusive_marketing, keywords |-> Sorted(ExclusiveSeed)] >>

\* a DataFrame is its ordered column labels and its rows (cells in column order)
NoneDf == [none |-> TRUE, columns |-> <<>>, rows |-> <<>>]

\* lines 12-13: if "df" not in st.session_state
InitDf(ks, d) == IF "df" \in ks THEN d ELSE NoneDf

\* an initialisation that installs the defaults on every run
InitDictionariesEveryRun(ks, d) == DefaultDictionaries

\* lines 15-29: if "dictionaries" not in st.session_state
InitDictionaries(ks, d) ==
  IF "dictionaries" \in ks THEN d ELSE DefaultDictionaries

InitKeys(ks) == ks \cup {"df", "dictionaries"}

----------------------------------------------------------------------------
(* Ordered dict (name -> keyword list) and DataFrame helpers               *)

HasKey(d, k) == \E i \in 1..Len(d) : d[i].name = k

KeyIndex(d, k) == CHOOSE i \in 1..Len(d) : d[i].name = k

\* d[k] = v: an existing key keeps its position, a new key goes last
DictSet(d, k, v) ==
  IF HasKey(d, k)
  THEN [d EXCEPT ![KeyIndex(d, k)].keywords = v]
  ELSE Append(d, [name |-> k, keywords |-> v])

\* the values a cell of a DataFrame holds
StrCell(s)  == [t |-> "str",   s |-> s,    b |-> FALSE, n |-> 0, d |-> <<>>]
NaNCell     == [t |-> "nan",   s |-> <<>>, b |-> FALSE, n |-> 0, d |-> <<>>]
BoolCell(b) == [t |-> "bool",  s |-> <<>>, b |-> b,     n |-> 0, d |-> <<>>]
IntCell(n)  == [t |-> "int",   s |-> <<>>, b |-> FALSE, n |-> n, d |-> <<>>]
DictCell(d) == [t |-> "dict",  s |-> <<>>, b |-> FALSE, n |-> 0, d |-> d]

\* label in frame.columns
HasColumn(frame, label) ==
  ~frame.none /\ \E i \in 1..Len(frame.columns) : frame.columns[i] = label

ColumnIndex(frame, label) ==
  CHOOSE i \in 1..Len(frame.columns) : frame.columns[i] = label

\* frame[label]: the column's cells, one per row
Column(frame, label) ==
  [r \in 1..Len(frame.rows) |-> frame.rows[r][ColumnIndex(frame, label)]]

\* frame[label] = values: an existing column is overwritten in place, a new
\* one is appended after the last column
SetColumn(frame, label, values) ==
  IF HasColumn(frame, label)
  THEN [frame EXCEPT !.rows =
          [r \in 1..Len(frame.rows) |->
             [frame.rows[r] EXCEPT ![ColumnIndex(frame, label)] = values[r]]]]
  ELSE [frame EXCEPT !.columns = Append(frame.columns, label),
                     !.rows = [r \in 1..Len(frame.rows) |->
                                 Append(frame.rows[r], values[r])]]

----------------------------------------------------------------------------
(* classify(text, dictionaries)                                            *)

\* str(text)
Str(cell) == IF cell.t = "nan" THEN NanText ELSE cell.s

\* kw.lower() in text_lower
KeywordMatches(kw, text_lower) == Contains(StrLower(kw), text_lower)

\* lines 41-54; dictionaries is the mapping the caller passes, each value in
\* the order its iteration yields
classify(text, dicts) ==
  LET text_lower == StrLower(Str(text))
      hit(kw)    == KeywordMatches(kw, text_lower)
  IN  [i \in 1..Len(dicts) |->
         LET matches == SelectSeq(dicts[i].keywords, hit)
         IN  [tactic  |-> dicts[i].name,
              present |-> matches # <<>>,
              count   |-> Len(matches),
              matches |-> matches]]

\* d[tactic] for a classify() result
ResultFor(d, tactic) == d[CHOOSE i \in 1..Len(d) : d[i].tactic = tactic]

----------------------------------------------------------------------------
(* Edit Dictionaries page                                                  *)

\* [k.strip() for k in value.split(",") if k.strip()]
ParseKeywords(value) ==
  LET pieces   == SplitComma(value)
      stripped == [i \in 1..Len(pieces) |-> Strip(pieces[i])]
      nonempty(k) == k # <<>>
  IN  SelectSeq(stripped, nonempty)

\* line 111: the text a tactic's text area shows when the user leaves it alone
CurrentText(keywords) == Join(CommaSpace, keywords)

\* lines 109-120: every tactic's keyword list is re-read from its text area;
\* areas[i] is the content of the i-th tactic's text area
UpdateKeywords(d, areas) ==
  [i \in 1..Len(d) |-> [d[i] EXCEPT !.keywords = ParseKeywords(areas[i])]]

\* the text areas of a run in which the user changed at most the one of
\* tactic `edited` (0: none) to `text`
TextAreas(d, edited, text) ==
  [i \in 1..Len(d) |-> IF i = edited THEN text ELSE CurrentText(d[i].keywords)]

\* an "Add tactic" that does not look the name up in the store
AddAcceptedUnchecked(d, name) == Strip(name) # <<>>

\* lines 133-137: the two rejections of "Add tactic"
NameMissing(name) == Strip(name) = <<>>
AddAccepted(d, name) == ~NameMissing(name) /\ ~HasKey(d, name)

\* lines 132-145, the run in which "Add tactic" is pressed: an accepted name
\* is stored (line 138) and the run ends at st.experimental_rerun() (line 143);
\* the run that follows is a script run like any other
AddTacticClicked(d, name, keywords_text) ==
  IF AddAccepted(d, name)
  THEN DictSet(d, name, ParseKeywords(keywords_text))
  ELSE d

\* lines 134, 136, 141: the message of that run; the success message also
\* quotes the name, which new_name holds
AddTacticShown(d, name) ==
  IF NameMissing(name) THEN {"warning: Enter a tactic name."}
  ELSE IF HasKey(d, name) THEN {"warning: This tactic already exists."}
  ELSE {"success: Added tactic."}

----------------------------------------------------------------------------
(* Run Classification page                                                 *)

Statement == <<"S","t","a","t","e","m","e","n","t">>
classification == <<"c","l","a","s","s","i","f","i","c","a","t","i","o","n">>
PresentSuffix == <<"_","p","r","e","s","e","n","t">>
CountSuffix == <<"_","c","o","u","n","t">>
MatchesSuffix == <<"_","m","a","t","c","h","e","s">>

\* the elements of a list, each once, by first occurrence
RECURSIVE Distinct(_)
Distinct(l) ==
  IF l = <<>> THEN <<>>
  ELSE LET rest == Distinct(SubSeq(l, 1, Len(l) - 1))
           last == l[Len(l)]
       IN  IF \E i \in 1..Len(rest) : rest[i] = last THEN rest
           ELSE Append(rest, last)

Range(l) == {l[i] : i \in 1..Len(l)}

Orderings(S) ==
  {p \in [1..Cardinality(S) -> S] :
     \A i, j \in 1..Cardinality(S) : i # j => p[i] # p[j]}

\* the keywords of a list that match some cell of a column
Observable(keywords, cells) ==
  {kw \in Range(keywords) :
     \E r \in 1..Len(cells) : KeywordMatches(kw, StrLower(Str(cells[r])))}

\* a conversion that keeps the list as it is, repeats included
ListOrderKept(keywords, cells) == {keywords}

\* set(v), line 155: the orders in which iterating the set can yield the
\* list's distinct elements.  A set of str iterates in hash order, and str
\* hashes are salted per process, so every order of the distinct elements is
\* possible.  Only the relative order of the keywords that match some cell
\* shows in a result, so those are permuted and the others follow.
SetIterationOrders(keywords, cells) ==
  LET distinct == Distinct(keywords)
      seen     == Observable(keywords, cells)
      unseen(kw) == kw \notin seen
  IN  {p \o SelectSeq(distinct, unseen) : p \in Orderings(seen)}

\* the choices of one iteration order per tactic, from tactic i on
RECURSIVE SetConversionsFrom(_, _, _)
SetConversionsFrom(d, cells, i) ==
  IF i > Len(d) THEN {<<>>}
  ELSE {<<first>> \o rest :
          first \in SetIterationOrders(d[i].keywords, cells),
          rest \in SetConversionsFrom(d, cells, i + 1)}

SetConversions(d, cells) == SetConversionsFrom(d, cells, 1)

\* {k: set(v) for k, v in dictionaries.items()} under the orders chosen
AsSets(d, orders) ==
  [i \in 1..Len(d) |-> [name |-> d[i].name, keywords |-> orders[i]]]

\* lines 168-171: the three columns of one tactic
RECURSIVE Flatten(_, _, _)
Flatten(frame, dicts, i) ==
  IF i > Len(dicts) THEN frame
  ELSE LET tactic == dicts[i].name
           res(r) == ResultFor(Column(frame, classification)[r].d, tactic)
           n      == Len(frame.rows)
           f1 == SetColumn(frame, tactic \o PresentSuffix,
                           [r \in 1..n |-> BoolCell(res(r).present)])
           f2 == SetColumn(f1, tactic \o CountSuffix,
                           [r \in 1..n |-> IntCell(res(r).count)])
           f3 == SetColumn(f2, tactic \o MatchesSuffix,
                           [r \in 1..n |->
                              StrCell(Join(CommaSpace, res(r).matches))])
       IN  Flatten(f3, dicts, i + 1)

\* lines 163-171: "Run classifier" pressed on a frame with a Statement column
RunClassifier(frame, dicts) ==
  LET texts   == Column(frame, Statement)
      results == [r \in 1..Len(frame.rows) |-> DictCell(classify(texts[r], dicts))]
  IN  Flatten(SetColumn(frame, classification, results), dicts, 1)

----------------------------------------------------------------------------
(* The inputs of the model                                                 *)

\* what is typed into a keyword field: "a, a ,A" (a repeated keyword, padding,
\* two cases), "" (nothing), " A,,a" (an empty piece)
KeywordTexts ==
  { <<"a",","," ","a"," ",",","A">>,
    <<>>,
    <<" ","A",",",",","a">> }

\* what is typed into "Tactic name"
TacticNames == { <<>>, <<" ">>, urgency_marketing, <<"x">> }

\* pd.read_csv yields a non-empty str for a filled field and NaN for an empty one
OtherColumn == <<"T","e","x","t">>
OtherCell == StrCell(<<"v">>)

\* the CSV files uploaded: a Statement column alone (a row for the first
\* tactic, one for both, one for neither, one empty field), a Statement column
\* beside a column already labelled "classification", and no Statement column
Frames ==
  { [none |-> FALSE, columns |-> <<Statement>>,
     rows |-> << <<StrCell(<<"L","i","m","i","t","e","d"," ","t","i","m","e">>)>>,
                 <<StrCell(<<"L","i","m","i","t","e","d"," ","t","i","m","e"," ","o","f","f","e","r"," ","-"," ","V","I","P"," ","a","c","c","e","s","s"," ","o","n","l","y","!">>)>>,
                 <<StrCell(<<"A">>)>>,
                 <<NaNCell>> >>],
    [none |-> FALSE, columns |-> <<Statement, classification>>,
     rows |-> << <<StrCell(<<"A">>), OtherCell>> >>],
    [none |-> FALSE, columns |-> <<OtherColumn>>,
     rows |-> << <<OtherCell>> >>] }

----------------------------------------------------------------------------
(* The script runs                                                         *)

Init ==
  /\ keys = {}
  /\ df = NoneDf
  /\ dictionaries = <<>>
  /\ page = "none"
  /\ clicked = FALSE
  /\ new_name = <<>>
  /\ shown = {}
  /\ ranOnDf = FALSE
  /\ runs = 0

\* lines 12-36, common to every run; the radio shows "Home" until the user
\* picks another page, so the first run of a session renders Home
Rerun(p) ==
  /\ IF keys = {} THEN p = "Home" /\ runs' = runs
     ELSE runs < MaxRuns /\ runs' = runs + 1
  /\ keys' = InitKeys(keys)
  /\ page' = p

\* lines 60-71
Home ==
  /\ Rerun("Home")
  /\ df' = InitDf(keys, df)
  /\ dictionaries' = InitDictionaries(keys, dictionaries)
  /\ shown' = {}
  /\ clicked' = FALSE
  /\ new_name' = <<>>
  /\ UNCHANGED ranOnDf

\* lines 88-96
UploadShown(frame) ==
  IF frame.none THEN {}
  ELSE IF ~HasColumn(frame, Statement)
       THEN {"preview", "error: The CSV must include a Statement column."}
       ELSE {"preview", "success: File successfully loaded!"}

\* lines 76-96, the uploader empty
UploadPageNoFile ==
  /\ Rerun("Upload Data")
  /\ df' = InitDf(keys, df)
  /\ dictionaries' = InitDictionaries(keys, dictionaries)
  /\ shown' = UploadShown(df')
  /\ clicked' = FALSE
  /\ new_name' = <<>>
  /\ UNCHANGED ranOnDf

\* lines 76-96, pd.read_csv raising on the uploaded file
UploadPageBadFile ==
  /\ Rerun("Upload Data")
  /\ df' = InitDf(keys, df)
  /\ dictionaries' = InitDictionaries(keys, dictionaries)
  /\ shown' = {"error: Error reading CSV"} \cup UploadShown(df')
  /\ clicked' = FALSE
  /\ new_name' = <<>>
  /\ UNCHANGED ranOnDf

\* lines 76-96, pd.read_csv returning a frame
UploadPageFile ==
  \E frame \in Frames :
    /\ Rerun("Upload Data")
    /\ df' = frame
    /\ dictionaries' = InitDictionaries(keys, dictionaries)
    /\ shown' = UploadShown(df')
    /\ clicked' = FALSE
    /\ new_name' = <<>>
    /\ ranOnDf' = FALSE

\* lines 101-120 and 145: the page rendered, the user having changed at most
\* one text area (0: none), "Add tactic" not pressed.  Each tactic's list is
\* parsed from its own text area, so the untouched ones are parsed once.
EditKeywords ==
  LET d         == InitDictionaries(keys, dictionaries)
      untouched == UpdateKeywords(d, TextAreas(d, 0, <<>>))
  IN
  \E edited \in 0..Len(d), text \in KeywordTexts :
    /\ edited = 0 => text = <<>>
    /\ Rerun("Edit Dictionaries")
    /\ df' = InitDf(keys, df)
    /\ dictionaries' =
         IF edited = 0 THEN untouched
         ELSE [untouched EXCEPT ![edited].keywords = ParseKeywords(text)]
    /\ shown' = {}
    /\ clicked' = FALSE
    /\ new_name' = <<>>
    /\ UNCHANGED ranOnDf

\* lines 101-143: the run in which "Add tactic" is pressed, the text areas
\* left alone.  After an accepted add the script is run again from the top
\* (line 143): that run is the next step, a run of whatever page and widget
\* values the session then has (EditKeywords with no text area changed when
\* nothing else happened).
AddTactic ==
  LET d         == InitDictionaries(keys, dictionaries)
      untouched == UpdateKeywords(d, TextAreas(d, 0, <<>>))
  IN
  \E name \in TacticNames, text \in KeywordTexts :
    /\ Rerun("Edit Dictionaries")
    /\ df' = InitDf(keys, df)
    /\ dictionaries' = AddTacticClicked(untouched, name, text)
    /\ shown' = AddTacticShown(untouched, name)
    /\ clicked' = TRUE
    /\ new_name' = name
    /\ UNCHANGED ranOnDf

\* line 176-177
RunShown(frame) ==
  IF HasColumn(frame, classification) THEN {"dataframe"} ELSE {}

\* lines 151-177, "Run classifier" not rendered or not pressed
RunPageIdle ==
  LET frame == InitDf(keys, df) IN
  /\ Rerun("Run Classification")
  /\ df' = frame
  /\ dictionaries' = InitDictionaries(keys, dictionaries)
  /\ shown' = IF frame.none THEN {"warning: Upload a dataset first."}
              ELSE IF ~HasColumn(frame, Statement)
              THEN {"error: The CSV must include a Statement column."}
              ELSE RunShown(frame)
  /\ clicked' = FALSE
  /\ new_name' = <<>>
  /\ UNCHANGED ranOnDf

\* lines 151-177, "Run classifier" pressed
RunPageClicked ==
  LET frame == InitDf(keys, df)
      d     == InitDictionaries(keys, dictionaries)
  IN
  /\ ~frame.none
  /\ HasColumn(frame, Statement)
  /\ \E orders \in SetConversions(d, Column(frame, Statement)) :
       /\ Rerun("Run Classification")
       /\ df' = RunClassifier(frame, AsSets(d, orders))
       /\ dictionaries' = d
       /\ shown' = {"success: Classification complete!"} \cup RunShown(df')
       /\ clicked' = TRUE
       /\ new_name' = <<>>
       /\ ranOnDf' = TRUE

\* line 187
DownloadRefused(frame) == frame.none \/ ~HasColumn(frame, classification)

\* lines 182-200
DownloadPage ==
  LET frame == InitDf(keys, df) IN
  /\ Rerun("Download Results")
  /\ df' = frame
  /\ dictionaries' = InitDictionaries(keys, dictionaries)
  /\ shown' = IF DownloadRefused(frame)
              THEN {"warning: You must run classification first."}
              ELSE {"download_button", "success: File ready for download!"}
  /\ clicked' = FALSE
  /\ new_name' = <<>>
  /\ UNCHANGED ranOnDf

Next ==
  \/ Home
  \/ UploadPageNoFile
  \/ UploadPageBadFile
  \/ UploadPageFile
  \/ EditKeywords
  \/ AddTactic
  \/ RunPageIdle
  \/ RunPageClicked
  \/ DownloadPage

Spec == Init /\ [][Next]_vars

----------------------------------------------------------------------------
(* classify on bounded texts and keyword lists                             *)

\* longest Statement text
MaxTextLen == 3
\* longest keyword
MaxKeywordLen == 2

ClassifyAlphabet == {"a", "A", "b"}

StringsUpTo(n) == UNION {[1..k -> ClassifyAlphabet] : k \in 1..n}

\* keyword lists as the Edit Dictionaries page stores them (trimmed, non-empty
\* entries): for the first tactic no keyword, one, or one followed by a
\* one-letter keyword; three lists for the second
ClassifyStores ==
  LET kws == StringsUpTo(MaxKeywordLen) IN
  {<< [name |-> urgency_marketing, keywords |-> k1],
      [name |-> exclusive_marketing, keywords |-> k2] >> :
     k1 \in {<<>>} \cup {<<k>> : k \in kws} \cup (kws \X StringsUpTo(1)),
     k2 \in {<<>>, <<<<"b">>>>, <<<<"A">>, <<"a","b">>>>}}

ClassifyFrames ==
  {[none |-> FALSE, columns |-> <<Statement>>, rows |-> << <<c>> >>] :
     c \in {NaNCell} \cup {StrCell(t) : t \in StringsUpTo(MaxTextLen)}}

InitClassify ==
  /\ keys = {"df", "dictionaries"}
  /\ df \in ClassifyFrames
  /\ dictionaries \in ClassifyStores
  /\ page = "Run Classification"
  /\ clicked = FALSE
  /\ new_name = <<>>
  /\ shown = {}
  /\ ranOnDf = FALSE
  /\ runs = 0

NextClassify == ~ranOnDf /\ RunPageClicked

SpecClassify == InitClassify /\ [][NextClassify]_vars

----------------------------------------------------------------------------
(* Properties                                                              *)

\* the state a run of the classifier leaves: dictionaries is the store it read
JustRan == page = "Run Classification" /\ clicked

\* the classify() result stored for row r
ResultCell(r) == Column(df, classification)[r].d

RowIndexes == 1..Len(df.rows)

NoRepeats(l) == \A i, j \in 1..Len(l) : i # j => l[i] # l[j]

\* sub occurs in s: some run of consecutive characters of s spells sub
OccursIn(sub, s) ==
  \E k \in 0..Len(s) :
    /\ k + Len(sub) <= Len(s)
    /\ \A m \in 1..Len(sub) : s[k + m] = sub[m]

\* the column labels a run adds for the tactics of a store, in store order
RECURSIVE TacticLabels(_)
TacticLabels(d) ==
  IF d = <<>> THEN <<>>
  ELSE << Head(d).name \o PresentSuffix,
          Head(d).name \o CountSuffix,
          Head(d).name \o MatchesSuffix >> \o TacticLabels(Tail(d))

\* C1: after a run of the classifier, a row whose Statement is missing (NaN)
\* has present = false, count = 0 and matches = [] for every tactic.
C1_MissingStatementMatchesNothing ==
  JustRan =>
    \A r \in RowIndexes :
      Column(df, Statement)[r].t = "nan" =>
        \A i \in 1..Len(ResultCell(r)) :
          /\ ~ResultCell(r)[i].present
          /\ ResultCell(r)[i].count = 0
          /\ ResultCell(r)[i].matches = <<>>

\* C2: the first run of the classifier on an uploaded table leaves exactly the
\* table's columns followed by the three columns of every tactic in store
\* order, and as many rows as before.
C2_ColumnsAreOriginalPlusThreePerTactic ==
  [][(~ranOnDf /\ ranOnDf') =>
       /\ df'.columns = df.columns \o TacticLabels(dictionaries')
       /\ Len(df'.rows) = Len(df.rows)]_vars

\* C3: after a run of the classifier, every tactic's matches list the matching
\* keywords in the order the store holds them, and the <tactic>_matches column
\* is that list joined by ", ".
C3_MatchesInInsertionOrder ==
  JustRan =>
    \A r \in RowIndexes : \A i \in 1..Len(dictionaries) :
      LET m == ResultCell(r)[i].matches
          matched(kw) == kw \in Range(m)
      IN  /\ m = SelectSeq(Distinct(dictionaries[i].keywords), matched)
          /\ Column(df, dictionaries[i].name \o MatchesSuffix)[r]
               = StrCell(Join(CommaSpace, m))

\* C4: every stored keyword is trimmed and non-empty, and no tactic of the
\* store holds the same keyword twice.
C4_StoredKeywordsAreDeduplicated ==
  \A i \in 1..Len(dictionaries) :
    LET kws == dictionaries[i].keywords IN
    /\ \A k \in 1..Len(kws) : kws[k] # <<>> /\ Strip(kws[k]) = kws[k]
    /\ NoRepeats(kws)

\* C5: classify reports a tactic present exactly when one of its keywords,
\* lower-cased, occurs as a run of consecutive characters of the lower-cased
\* text, and a tactic's result is the one it gets in a store that holds it alone.
C5_PresentIffSomeKeywordOccurs ==
  JustRan =>
    \A r \in RowIndexes : \A i \in 1..Len(dictionaries) :
      LET text  == Str(Column(df, Statement)[r])
          kws   == dictionaries[i].keywords
          res   == ResultCell(r)[i]
          alone == classify(Column(df, Statement)[r],
                            AsSets(<<dictionaries[i]>>, <<Distinct(kws)>>))[1]
      IN  /\ res.tactic = dictionaries[i].name
          /\ res.present <=>
               \E k \in 1..Len(kws) : OccursIn(StrLower(kws[k]), StrLower(text))
          /\ res.present = alone.present
          /\ res.count = alone.count
          /\ Range(res.matches) = Range(alone.matches)

\* a keyword matched inside the text, not at its start, across a case difference
C5_Witness ==
  /\ JustRan
  /\ Column(df, Statement)[1] = StrCell(<<"b","A">>)
  /\ dictionaries[1].keywords = << <<"a">> >>
  /\ dictionaries[2].keywords = << <<"b">> >>
  /\ ResultCell(1)[1].present
  /\ ResultCell(1)[2].present

\* C6: every result a run of the classifier stores is well-formed: present,
\* count > 0 and matches non-empty agree, count is the length of matches,
\* matches holds no entry twice, and every entry is a keyword of the tactic.
C6_ResultsWellFormed ==
  JustRan =>
    \A r \in RowIndexes : \A i \in 1..Len(dictionaries) :
      LET res == ResultCell(r)[i] IN
      /\ res.present = (res.count > 0)
      /\ res.present = (Len(res.matches) > 0)
      /\ res.count = Len(res.matches)
      /\ NoRepeats(res.matches)
      /\ Range(res.matches) \subseteq Range(dictionaries[i].keywords)

\* a run over a store with a repeated keyword that matched and an empty tactic
C6_Witness ==
  /\ JustRan
  /\ \E i \in 1..Len(dictionaries) :
       /\ ~NoRepeats(dictionaries[i].keywords)
       /\ \E r \in RowIndexes :
            /\ ResultCell(r)[i].present
            /\ ResultCell(r)[i].count < Len(dictionaries[i].keywords)
  /\ \E i \in 1..Len(dictionaries) : dictionaries[i].keywords = <<>>

AddPressed == page' = "Edit Dictionaries" /\ clicked'

\* C7: tactic names are unique and not blank in every store; "Add tactic"
\* with a blank name or with a name the store holds shows its warning and
\* leaves the store as it was; with any other name it appends that tactic.
C7_RejectedAddLeavesStore ==
  /\ [](/\ \A i, j \in 1..Len(dictionaries) :
              i # j => dictionaries[i].name # dictionaries[j].name
        /\ \A i \in 1..Len(dictionaries) : Strip(dictionaries[i].name) # <<>>)
  /\ [][(AddPressed /\ NameMissing(new_name')) =>
          /\ dictionaries' = dictionaries
          /\ shown' = {"warning: Enter a tactic name."}]_vars
  /\ [][(AddPressed /\ ~NameMissing(new_name')
           /\ HasKey(dictionaries, new_name')) =>
          /\ dictionaries' = dictionaries
          /\ shown' = {"warning: This tactic already exists."}]_vars
  /\ [][(AddPressed /\ ~NameMissing(new_name')
           /\ ~HasKey(dictionaries, new_name')) =>
          /\ Len(dictionaries') = Len(dictionaries) + 1
          /\ SubSeq(dictionaries', 1, Len(dictionaries)) = dictionaries
          /\ dictionaries'[Len(dictionaries')].name = new_name'
          /\ shown' = {"success: Added tactic."}]_vars

\* "Add tactic" refused for a name held by a store the user had edited
C7_Witness ==
  /\ page = "Edit Dictionaries"
  /\ clicked
  /\ new_name = urgency_marketing
  /\ "warning: This tactic already exists." \in shown
  /\ dictionaries[1].keywords = << <<"a">>, <<"a">>, <<"A">> >>
  /\ Len(dictionaries) = 3

\* C8: the script installs the default store only in a session that holds
\* none; afterwards a run of any page but Edit Dictionaries leaves the store as
\* it was, and a run of Edit Dictionaries keeps every tactic in its place,
\* changes the keywords of at most one and, with "Add tactic", of none.
C8_StoreInitialisedOnce ==
  [][IF "dictionaries" \notin keys
     THEN dictionaries' = DefaultDictionaries
     ELSE /\ "dictionaries" \in keys'
          /\ page' # "Edit Dictionaries" => dictionaries' = dictionaries
          /\ page' = "Edit Dictionaries" =>
               /\ Len(dictionaries') >= Len(dictionaries)
               /\ \A i \in 1..Len(dictionaries) :
                    dictionaries'[i].name = dictionaries[i].name
               /\ Cardinality({i \in 1..Len(dictionaries) :
                                 dictionaries'[i] # dictionaries[i]}) <= 1
               /\ clicked' =>
                    SubSeq(dictionaries', 1, Len(dictionaries)) = dictionaries
    ]_vars

\* an edited store, still held after an upload, a classification and a visit
\* of Download Results
C8_Witness ==
  /\ page = "Download Results"
  /\ ranOnDf
  /\ dictionaries # DefaultDictionaries
  /\ dictionaries[1].keywords = <<>>

\* C9: the first run of the classifier on an uploaded table leaves every
\* column of the table in place with the value it had in every row.
C9_OriginalColumnsKeepTheirValues ==
  [][(~ranOnDf /\ ranOnDf') =>
       \A c \in 1..Len(df.columns) :
         /\ c <= Len(df'.columns)
         /\ df'.columns[c] = df.columns[c]
         /\ \A r \in RowIndexes : df'.rows[r][c] = df.rows[r][c]]_vars

\* C10: Download Results offers the file only when the classifier has run on
\* the table the session holds since that table was uploaded.
C10_DownloadOnlyAfterClassification ==
  "download_button" \in shown => ranOnDf

====
